---- MODULE Spec2Model ----
(***************************************************************************)
(* Model of the overlay encoder of launch-video-breakdown:                 *)
(*   src/lib/mediabunny-encoder.ts   encodeVideoWithOverlay and its        *)
(*                                   drawing helpers                       *)
(*   src/components/TimelineColoredPills.tsx, src/unnamed/part_002         *)
(*                                   the live-preview tick functions       *)
(*   src/components/VideoUploader.tsx, src/app/api/analyze/route.ts        *)
(*                                   the upload gate, the server's         *)
(*                                   duration check and its answer         *)
(*   src/app/api/analyze/route.ts (from line 223), src/unnamed/part_000    *)
(*                                   the preview page and its Download     *)
(*                                   button                                *)
(*                                                                         *)
(* Time is counted in ticks, TicksPerSecond ticks to the second, chosen a  *)
(* multiple of fps so that frameIndex / fps is a whole number of ticks     *)
(* while section boundaries and durations may still fall between frames.   *)
(* Fractions (progress, transitionT) are exact rationals <<num, den>>,     *)
(* den > 0; the rounding of IEEE doubles is modelled for the frame clock   *)
(* alone (ClockSpec), not in the job model.                                *)
(*                                                                         *)
(* A JavaScript job runs to completion: every action below is one such     *)
(* job (the code between two awaits), or one step of the environment (the  *)
(* video element, the timers, the muxer, the network).                     *)
(***************************************************************************)
EXTENDS Integers, Sequences, FiniteSets, TLC

\* ---------------------------------------------------------------- bounds
\* longest declared duration, in ticks
MaxDuration == 24
\* pending 100 ms timers kept at once (the current one and stale ones)
MaxPendingTimers == 2
\* 'seeked' events queued on the video element and not yet dispatched
MaxQueuedSeeked == 1
\* largest time, and longest section list, of the pure-function checks
MaxT == 3
MaxSections == 3
\* files handed to the uploader one after the other, and forms of other
\* clients that /api/analyze is working on at once
MaxUploads == 2
MaxDirectPosts == 1
\* declared durations of the clock check: 0.1 s to 9 s, by tenths
MaxTenths == 90
\* clicks on Download in the preview page
MaxDownloads == 2

\* ------------------------------------------------------------- constants
fps == 30
TicksPerSecond == 2 * fps
\* const TRANSITION_DURATION = 0.3; // seconds
TRANSITION_DURATION == (3 * TicksPerSecond) \div 10

\* ------------------------------------------------------------- rationals
Rat(n, d) == <<n, d>>
RatOne == <<1, 1>>
RatZero == <<0, 1>>
RatEq(a, b) == a[1] * b[2] = b[1] * a[2]
RatLe(a, b) == a[1] * b[2] <= b[1] * a[2]
RatLt(a, b) == a[1] * b[2] < b[1] * a[2]
\* Math.min(a, b)
RatMin(a, b) == IF RatLe(a, b) THEN a ELSE b
RatAdd(a, b) == <<a[1] * b[2] + b[1] * a[2], a[2] * b[2]>>
\* a / n for a whole number n > 0
RatDivInt(a, n) == <<a[1], a[2] * n>>
RatSub(a, b) == <<a[1] * b[2] - b[1] * a[2], a[2] * b[2]>>
RatMul(a, b) == <<a[1] * b[1], a[2] * b[2]>>

\* ------------------------------------------------------------- sections
\* interface Section { name; startTime; endTime }
Section(s, e) == [startTime |-> s, endTime |-> e]

RECURSIVE FindFrom(_, _, _)
FindFrom(secs, time, i) ==
    IF i > Len(secs) THEN -1
    ELSE IF time >= secs[i].startTime /\ time < secs[i].endTime THEN i - 1
    ELSE FindFrom(secs, time, i + 1)

\* sections.findIndex((s) => time >= s.startTime && time < s.endTime),
\* 0-based, -1 when no section matches
findIndex(secs, time) == FindFrom(secs, time, 1)

\* variant: without the "keep the last section active" fallback
ActiveIdxNoFallback(secs, currentTime) == findIndex(secs, currentTime)

\* encoder, "Find active section"
ActiveIdx(secs, currentTime) ==
    LET idx == findIndex(secs, currentTime) IN
    IF idx = -1 /\ Len(secs) > 0 /\ currentTime >= secs[Len(secs)].startTime
    THEN Len(secs) - 1
    ELSE idx

\* TimelineColoredPills, tick
PillsTickIdx(secs, t) ==
    LET numSections == Len(secs)
        idx == findIndex(secs, t) IN
    IF idx = -1 /\ numSections > 0 /\ t >= secs[numSections].startTime
    THEN numSections - 1
    ELSE idx

\* TimelineDots, tick
DotsTickIdx(secs, t) ==
    LET numSections == Len(secs)
        idx == findIndex(secs, t) IN
    IF idx = -1 /\ numSections > 0 /\ t >= secs[numSections].startTime
    THEN numSections - 1
    ELSE idx

\* variant: progress as the raw fraction of the playback time
OverlayPctTimeWeighted(secs, currentTime, activeIdx) ==
    RatMin(Rat(currentTime, secs[Len(secs)].endTime), RatOne)

\* variant: the quotient is not capped with Math.min
SectionProgUncapped(s, currentTime) ==
    Rat(currentTime - s.startTime, s.endTime - s.startTime)

\* drawTimelineOverlay, const sectionProg = Math.min(..., 1)
SectionProg(s, currentTime) ==
    RatMin(Rat(currentTime - s.startTime, s.endTime - s.startTime), RatOne)

\* drawTimelineOverlay, "Section-based progress"; numSections > 0
OverlayPct(secs, currentTime, activeIdx) ==
    LET numSections == Len(secs) IN
    IF activeIdx >= 0
    THEN LET s == secs[activeIdx + 1]
             sectionProg == SectionProg(s, currentTime)
         IN RatDivInt(RatAdd(Rat(activeIdx, 1), sectionProg), numSections)
    ELSE IF currentTime >= secs[numSections].endTime THEN RatOne
    ELSE RatZero

\* variant: the section's own progress not capped at 1
DotsTickPctUncapped(secs, t, dur) ==
    LET numSections == Len(secs)
        idx == DotsTickIdx(secs, t) IN
    IF numSections = 0
    THEN (IF dur > 0 THEN RatMin(Rat(t, dur), RatOne) ELSE RatZero)
    ELSE IF idx >= 0
    THEN LET s == secs[idx + 1]
             sectionProg == Rat(t - s.startTime, s.endTime - s.startTime)
         IN RatDivInt(RatAdd(Rat(idx, 1), sectionProg), numSections)
    ELSE RatZero

\* TimelineDots, tick, "Section-based position"
DotsTickPct(secs, t, dur) ==
    LET numSections == Len(secs)
        idx == DotsTickIdx(secs, t) IN
    IF numSections = 0
    THEN (IF dur > 0 THEN RatMin(Rat(t, dur), RatOne) ELSE RatZero)
    ELSE IF idx >= 0
    THEN LET s == secs[idx + 1]
             sectionProg == RatMin(Rat(t - s.startTime,
                                       s.endTime - s.startTime), RatOne)
         IN RatDivInt(RatAdd(Rat(idx, 1), sectionProg), numSections)
    ELSE RatZero

\* the number in the badge text: Math.floor(pct * 100), in the encoder's
\* "Badge" step and in the TimelineDots tick alike
PercentText(pct) == (pct[1] * 100) \div pct[2]

\* ---------------------------------------------------------- frame clock
\* variant: Math.floor instead of Math.ceil
TotalFramesFloor(dur) == (dur * fps) \div TicksPerSecond

\* const totalFrames = Math.ceil(duration * fps)
TotalFrames(dur) == (dur * fps + TicksPerSecond - 1) \div TicksPerSecond
\* const frameDuration = 1 / fps
FrameDuration == TicksPerSecond \div fps

\* ------------------------------------------------------ transition state
\* variant: prevActiveIdx is overwritten before leavingIdx reads it
TrackTransitionSwapped(tr, activeIdx, currentTime) ==
    IF activeIdx # tr.prevActiveIdx
    THEN [prevActiveIdx |-> activeIdx,
          leavingIdx |-> activeIdx,
          transitionStartTime |-> currentTime]
    ELSE tr

\* "Track transitions": the three let-variables after one frame
TrackTransition(tr, activeIdx, currentTime) ==
    IF activeIdx # tr.prevActiveIdx
    THEN [prevActiveIdx |-> activeIdx,
          leavingIdx |-> tr.prevActiveIdx,
          transitionStartTime |-> currentTime]
    ELSE tr

\* variant: the quotient is not capped with Math.min
TransitionTUncapped(tr, currentTime) ==
    IF tr.transitionStartTime >= 0
    THEN Rat(currentTime - tr.transitionStartTime, TRANSITION_DURATION)
    ELSE RatOne

\* const transitionT = transitionStartTime >= 0 ? Math.min(.../0.3, 1) : 1
TransitionT(tr, currentTime) ==
    IF tr.transitionStartTime >= 0
    THEN RatMin(Rat(currentTime - tr.transitionStartTime, TRANSITION_DURATION),
                RatOne)
    ELSE RatOne

\* variant: the leaving index is handed over whatever transitionT is
RenderLeavingIdxKept(tr, transitionT) == tr.leavingIdx

\* leavingIdx: transitionT < 1 ? leavingIdx : -1
RenderLeavingIdx(tr, transitionT) ==
    IF RatLt(transitionT, RatOne) THEN tr.leavingIdx ELSE -1

\* --------------------------------------------------------------- overlay
\* function easeOut(t) { return 1 - (1 - t) * (1 - t); }
easeOut(x) == RatSub(RatOne, RatMul(RatSub(RatOne, x), RatSub(RatOne, x)))

\* variant: the overlay functions draw whatever the list holds
OverlayDrawnAlways(secs) == TRUE

\* both overlay functions: if (numSections === 0) return;
OverlayDrawn(secs) == Len(secs) > 0

\* variant: every pill but the active one fades with the leaving pill
DotsPillTAllFade(index, activeIdx, leaving, easedT) ==
    IF index = activeIdx
    THEN (IF leaving >= 0 THEN easedT ELSE RatOne)
    ELSE RatSub(RatOne, easedT)

\* drawTimelineOverlay, "Determine animated state for this pill": the
\* weight of pill index, 0 = fully inactive, 1 = fully active
DotsPillT(index, activeIdx, leaving, easedT) ==
    IF index = activeIdx
    THEN (IF leaving >= 0 THEN easedT ELSE RatOne)
    ELSE IF index = leaving THEN RatSub(RatOne, easedT)
    ELSE RatZero

\* drawColoredPillsOverlay, the same rule
PillsPillT(index, activeIdx, leaving, easedT) ==
    IF index = activeIdx
    THEN (IF leaving >= 0 THEN easedT ELSE RatOne)
    ELSE IF index = leaving THEN RatSub(RatOne, easedT)
    ELSE RatZero

\* variant: a pill is dimmed also while no section is active
PillAlphaDimsIdle(index, activeIdx, pillT) ==
    LET isActive == RatLt(Rat(1, 2), pillT)
        isPast == activeIdx > index /\ activeIdx >= 0
        isFuture == ~isActive /\ ~isPast
    IN  IF isFuture THEN Rat(55, 100) ELSE RatOne

\* drawColoredPillsOverlay, "Opacity for future sections": globalAlpha of
\* the pill of weight pillT
PillAlpha(index, activeIdx, pillT) ==
    LET isActive == RatLt(Rat(1, 2), pillT)
        isPast == activeIdx > index /\ activeIdx >= 0
        isFuture == activeIdx >= 0 /\ ~isActive /\ ~isPast
    IN  IF isFuture THEN Rat(55, 100) ELSE RatOne

\* TimelineColoredPills, the opacity its pill index is animated to
PillOpacity(index, activeSectionIndex) ==
    LET isActive == activeSectionIndex = index
        isPast == activeSectionIndex > index
    IN  IF ~isPast /\ ~isActive /\ activeSectionIndex >= 0
        THEN Rat(55, 100)
        ELSE RatOne

\* ------------------------------------------------------------------ state
VARIABLES
    \* arguments of encodeVideoWithOverlay
    sections, duration, variant, onProgress,
    \* position of the async function and how its promise settled
    pc, settled,
    \* the audio block
    audioFailure, warned, audioSource, audioContext,
    \* the Output: calls made on it, and the video samples it was given
    calls, outputStarted, appended, appendPending,
    \* the video element and the timers
    seeking, seekedQueue, listeners, timers,
    \* the frame loop
    frameIndex, prevActiveIdx, leavingIdx, transitionStartTime,
    frameLog, wait, render, inFlight, progressLog,
    \* inputs and results of the pure-function checks: a playback time, the
    \* measured width of every section name, the width of the canvas
    t, textWidths, canvasWidth, out,
    \* further inputs of those checks: the text the section detector sent
    \* back to the analyze route, and a declared duration written with one
    \* decimal, in tenths of a second
    reply, declared,
    \* the preview page: its React state and the encode jobs it started
    page,
    \* the VideoUploader component: the file it was handed, its React state
    \* and position, and the requests /api/analyze has not yet answered or
    \* whose answer was not yet taken
    file, upload, requests

inputVars == <<sections, duration, variant, onProgress>>
audioVars == <<audioFailure, warned, audioSource, audioContext>>
outputVars == <<calls, outputStarted, appended, appendPending>>
videoVars == <<seeking, seekedQueue, listeners, timers>>
trackVars == <<prevActiveIdx, leavingIdx, transitionStartTime>>
frameVars == <<frameIndex, frameLog, wait, render, inFlight, progressLog>>
pureInputs == <<t, textWidths, canvasWidth, reply, declared>>
pureVars == <<pureInputs, out>>
uploadVars == <<file, upload, requests>>
pageVars == <<page>>
vars == <<inputVars, pc, settled, audioVars, outputVars, videoVars,
          trackVars, frameVars, pureVars, pageVars, uploadVars>>

\* variant: after a wait that timed out the clock is the one of the frame
\* before, the position the video element still shows
CurrentTimeOfVideo(fi) ==
    IF wait.cause = "timeout" /\ fi > 0
    THEN ((fi - 1) * TicksPerSecond) \div fps
    ELSE (fi * TicksPerSecond) \div fps

\* const currentTime = frameIndex / fps
CurrentTime(fi) == (fi * TicksPerSecond) \div fps

NoWait == [cause |-> "none", of |-> "none"]
NoRender == [fn |-> "none"]
NoOut == [op |-> "none"]
NoFile == [type |-> "none"]
NoReply == [kind |-> "none"]

\* useState(false), useState(null), useState(null): the mounted component
IdleUploader ==
    /\ file = NoFile
    /\ upload = [pc |-> "idle", isLoading |-> FALSE, error |-> "null",
                 videoPreviewUrl |-> "null", navigated |-> FALSE,
                 attempts |-> 0, posted |-> FALSE]
    /\ requests = <<>>

\* useState(false) and useState(0) of the preview page; what its last
\* render put on the screen (the button's disabled attribute, the number
\* after "Encoding"); the encode jobs it started that have not settled, the
\* frames the running job has reported, and the clicks on Download so far
IdlePage ==
    page = [isEncoding |-> FALSE, progress |-> 0,
            disabled |-> FALSE, shown |-> 0,
            running |-> 0, reported |-> 0, downloads |-> 0]

\* ---------------------------------------------------------------- inputs
Min(S) == CHOOSE x \in S : \A y \in S : x <= y

\* declared durations: the short ones, where ceil matters, and the longest
Durations == {d \in 0..MaxDuration : d <= 4 \/ d = MaxDuration}

\* section boundaries offered to a job of duration d
SectionTimes(d) == {x \in {0, 1, 4, d} : x <= d}

SectionsOver(times) ==
    {Section(s, e) : s, e \in times} \cap {x \in [startTime : times, endTime : times] :
                                             x.startTime < x.endTime}

\* lists kept in ascending startTime order, sections not overlapping
\* (the analyze route sorts by startTime); gaps are allowed
OrderedLists(times) ==
    UNION {{l \in [1..n -> SectionsOver(times)] :
               \A i \in 1..(n - 1) : l[i].endTime <= l[i + 1].startTime}
           : n \in 0..(Cardinality(times) - 1)}

\* state right after the call: the video element was created and load()ed
InitJob ==
    /\ pc = "loadMetadata"
    /\ settled = "pending"
    /\ audioFailure = "none"
    /\ warned = FALSE
    /\ audioSource = "none"
    /\ audioContext = "none"
    /\ calls = <<>>
    /\ outputStarted = FALSE
    /\ appended = <<>>
    /\ appendPending = <<>>
    /\ seeking = -1
    /\ seekedQueue = <<>>
    /\ listeners = {}
    /\ timers = {}
    /\ frameIndex = 0
    /\ prevActiveIdx = -1
    /\ leavingIdx = -1
    /\ transitionStartTime = -1
    /\ frameLog = <<>>
    /\ wait = NoWait
    /\ render = NoRender
    /\ inFlight = {}
    /\ progressLog = <<>>

Init ==
    /\ duration \in Durations
    /\ sections \in OrderedLists(SectionTimes(duration))
    /\ variant \in {"dots", "pills"}
    /\ onProgress \in BOOLEAN
    /\ InitJob
    /\ t = 0
    /\ textWidths = <<>>
    /\ canvasWidth = 1280
    /\ out = NoOut
    /\ IdleUploader
    /\ IdlePage
    /\ reply = NoReply
    /\ declared = 0

\* ------------------------------------------------------- settling the job
Reject(reason) ==
    /\ pc' = "rejected"
    /\ settled' = reason

\* ------------------------------------------------------------ video load
\* video.onloadedmetadata = () => resolve(); the function resumes and
\* creates the second promise: if (video.readyState >= 3) resolve();
\* else video.oncanplay = () => resolve()
LoadedMetadata ==
    /\ pc = "loadMetadata"
    /\ \E enoughData \in BOOLEAN :
          pc' = IF enoughData THEN "setup" ELSE "canPlay"
    /\ UNCHANGED <<inputVars, settled, audioVars, outputVars, videoVars,
                   trackVars, frameVars, pureVars, pageVars, uploadVars>>

\* video.onerror = () => reject(new Error("Failed to load video"))
VideoError ==
    /\ pc = "loadMetadata"
    /\ Reject("Failed to load video")
    /\ UNCHANGED <<inputVars, audioVars, outputVars, videoVars,
                   trackVars, frameVars, pureVars, pageVars, uploadVars>>

\* the video element fires 'canplay': video.oncanplay = () => resolve()
CanPlay ==
    /\ pc = "canPlay"
    /\ pc' = "setup"
    /\ UNCHANGED <<inputVars, settled, audioVars, outputVars, videoVars,
                   trackVars, frameVars, pureVars, pageVars, uploadVars>>

\* the canvas, the Output and the CanvasSource are created, the video track
\* is added and fetch() is called
Setup ==
    /\ pc = "setup"
    /\ calls' = Append(calls, "addVideoTrack")
    /\ pc' = "fetch"
    /\ UNCHANGED <<inputVars, settled, audioVars, outputStarted, appended,
                   appendPending, videoVars, trackVars, frameVars, pureVars, pageVars, uploadVars>>

\* ------------------------------------------------------------ audio block
\* variant: the catch block logs and rethrows
CatchAudioRethrow(step) ==
    /\ audioFailure' = step
    /\ warned' = TRUE
    /\ Reject("Audio processing failed")
    /\ UNCHANGED calls

\* catch (err) { console.warn(...); await output.start(); }
CatchAudio(step) ==
    /\ audioFailure' = step
    /\ warned' = TRUE
    /\ calls' = Append(calls, "start")
    /\ pc' = "catchStart"
    /\ UNCHANGED settled

\* await (await fetch(videoUrl)).arrayBuffer() resolves; the AudioContext is
\* created and decodeAudioData is called
FetchResolves ==
    /\ pc = "fetch"
    /\ audioContext' = "open"
    /\ pc' = "decode"
    /\ UNCHANGED <<inputVars, settled, audioFailure, warned, audioSource,
                   outputVars, videoVars, trackVars, frameVars, pureVars, pageVars, uploadVars>>

FetchRejects ==
    /\ pc = "fetch"
    /\ CatchAudio("fetch")
    /\ UNCHANGED <<inputVars, audioSource, audioContext, outputStarted,
                   appended, appendPending, videoVars, trackVars, frameVars,
                   pureVars, pageVars, uploadVars>>

\* decodeAudioData resolves; the AudioBufferSource is created, added as the
\* audio track, and output.start() is called
DecodeResolves ==
    /\ pc = "decode"
    /\ audioSource' = "open"
    /\ calls' = calls \o <<"addAudioTrack", "start">>
    /\ pc' = "audioStart"
    /\ UNCHANGED <<inputVars, settled, audioFailure, warned, audioContext,
                   outputStarted, appended, appendPending, videoVars,
                   trackVars, frameVars, pureVars, pageVars, uploadVars>>

DecodeRejects ==
    /\ pc = "decode"
    /\ CatchAudio("decode")
    /\ UNCHANGED <<inputVars, audioSource, audioContext, outputStarted,
                   appended, appendPending, videoVars, trackVars, frameVars,
                   pureVars, pageVars, uploadVars>>

\* await output.start() resolves; audioSource.add(audioBuffer) is called
StartResolves ==
    /\ pc = "audioStart"
    /\ outputStarted' = TRUE
    /\ pc' = "audioAdd"
    /\ UNCHANGED <<inputVars, settled, audioVars, calls, appended,
                   appendPending, videoVars, trackVars, frameVars, pureVars, pageVars, uploadVars>>

StartRejects ==
    /\ pc = "audioStart"
    /\ CatchAudio("start")
    /\ UNCHANGED <<inputVars, audioSource, audioContext, outputStarted,
                   appended, appendPending, videoVars, trackVars, frameVars,
                   pureVars, pageVars, uploadVars>>

\* await audioSource.add(audioBuffer) resolves; audioSource.close() runs and
\* audioContext.close() is called
AudioAddResolves ==
    /\ pc = "audioAdd"
    /\ calls' = calls \o <<"audioAdded", "audioSource.close">>
    /\ audioSource' = "closed"
    /\ pc' = "contextClose"
    /\ UNCHANGED <<inputVars, settled, audioFailure, warned, audioContext,
                   outputStarted, appended, appendPending, videoVars,
                   trackVars, frameVars, pureVars, pageVars, uploadVars>>

AudioAddRejects ==
    /\ pc = "audioAdd"
    /\ CatchAudio("add")
    /\ UNCHANGED <<inputVars, audioSource, audioContext, outputStarted,
                   appended, appendPending, videoVars, trackVars, frameVars,
                   pureVars, pageVars, uploadVars>>

\* await audioContext.close() resolves: the try block is done
ContextCloseResolves ==
    /\ pc = "contextClose"
    /\ audioContext' = "closed"
    /\ pc' = "loopHead"
    /\ UNCHANGED <<inputVars, settled, audioFailure, warned, audioSource,
                   outputVars, videoVars, trackVars, frameVars, pureVars, pageVars, uploadVars>>

ContextCloseRejects ==
    /\ pc = "contextClose"
    /\ CatchAudio("close")
    /\ UNCHANGED <<inputVars, audioSource, audioContext, outputStarted,
                   appended, appendPending, videoVars, trackVars, frameVars,
                   pureVars, pageVars, uploadVars>>

\* the await output.start() of the catch block resolves
CatchStartResolves ==
    /\ pc = "catchStart"
    /\ outputStarted' = TRUE
    /\ pc' = "loopHead"
    /\ UNCHANGED <<inputVars, settled, audioVars, calls, appended,
                   appendPending, videoVars, trackVars, frameVars, pureVars, pageVars, uploadVars>>

\* ... or rejects: nothing catches it
CatchStartRejects ==
    /\ pc = "catchStart"
    /\ Reject("output.start failed")
    /\ UNCHANGED <<inputVars, audioVars, outputVars, videoVars, trackVars,
                   frameVars, pureVars, pageVars, uploadVars>>

\* ------------------------------------------------------------- frame loop
\* the function is suspended at an await: only then are tasks dispatched
AtAwait == pc \notin {"loopHead", "composite"}

\* variant: the loop stops one frame early
LoopConditionShort == frameIndex + 1 < TotalFrames(duration)

\* for (...; frameIndex < totalFrames; ...)
LoopCondition == frameIndex < TotalFrames(duration)

\* the promise created by frame k's seek wait is still pending
Waiting(k) == pc = "seekWait" /\ frameIndex = k

\* resolve() of the pending seek wait: the function resumes after the await
\* (of: whether the releasing event belongs to this frame's own seek or timer,
\* "current", or to an earlier frame's, "earlier")
Release(cause, of) ==
    /\ wait' = [cause |-> cause, of |-> of]
    /\ frameLog' = Append(frameLog, "released")
    /\ pc' = "composite"

\* "Seek video": video.currentTime = currentTime starts a seek (a seek still
\* running is abandoned; 'seeked' events already queued now belong to an
\* earlier seek), then the listener and the timer are installed
SeekIssue ==
    /\ pc = "loopHead"
    /\ LoopCondition
    /\ seeking' = frameIndex
    /\ seekedQueue' = [i \in 1..Len(seekedQueue) |-> "earlier"]
    /\ listeners' = listeners \cup {frameIndex}
    /\ timers' = timers \cup {frameIndex}
    /\ inFlight' = inFlight \cup {frameIndex}
    /\ frameLog' = <<"seek">>
    /\ wait' = NoWait
    /\ pc' = "seekWait"
    /\ UNCHANGED <<inputVars, settled, audioVars, outputVars, trackVars,
                   frameIndex, render, progressLog, pureVars, pageVars, uploadVars>>

\* the video element finishes the running seek and queues its 'seeked' event
SeekCompletes ==
    /\ seeking # -1
    /\ Len(seekedQueue) < MaxQueuedSeeked
    /\ seekedQueue' = Append(seekedQueue, "current")
    /\ seeking' = -1
    /\ UNCHANGED <<inputVars, pc, settled, audioVars, outputVars, listeners,
                   timers, trackVars, frameVars, pureVars, pageVars, uploadVars>>

\* variant: onSeeked resolves and stays registered
DispatchSeekedKeepsListener ==
    /\ AtAwait
    /\ seekedQueue # <<>>
    /\ seekedQueue' = Tail(seekedQueue)
    /\ listeners' = listeners
    /\ IF \E k \in listeners : Waiting(k)
       THEN Release("seeked", Head(seekedQueue))
       ELSE UNCHANGED <<pc, wait, frameLog>>
    /\ UNCHANGED <<inputVars, settled, audioVars, outputVars, seeking, timers,
                   trackVars, frameIndex, render, inFlight, progressLog,
                   pureVars, pageVars, uploadVars>>

\* a queued 'seeked' event is dispatched: every registered onSeeked runs,
\* removes itself and resolves the promise of its own frame
DispatchSeeked ==
    /\ AtAwait
    /\ seekedQueue # <<>>
    /\ seekedQueue' = Tail(seekedQueue)
    /\ listeners' = {}
    /\ IF \E k \in listeners : Waiting(k)
       THEN Release("seeked", Head(seekedQueue))
       ELSE UNCHANGED <<pc, wait, frameLog>>
    /\ UNCHANGED <<inputVars, settled, audioVars, outputVars, seeking, timers,
                   trackVars, frameIndex, render, inFlight, progressLog,
                   pureVars, pageVars, uploadVars>>

\* variant: the timer callback removes the listener and forgets resolve()
TimerFiresRemovesOnly ==
    /\ AtAwait
    /\ timers # {}
    /\ timers' = timers \ {Min(timers)}
    /\ listeners' = listeners \ {Min(timers)}
    /\ UNCHANGED <<inputVars, pc, settled, audioVars, outputVars, seeking,
                   seekedQueue, trackVars, frameVars, pureVars, pageVars, uploadVars>>

\* the oldest 100 ms timer fires: it removes the listener of its own frame
\* and resolves the promise of its own frame
TimerFires ==
    /\ AtAwait
    /\ timers # {}
    /\ LET k == Min(timers) IN
         /\ timers' = timers \ {k}
         /\ listeners' = listeners \ {k}
         /\ IF Waiting(k)
            THEN Release("timeout",
                         IF k = frameIndex THEN "current" ELSE "earlier")
            ELSE UNCHANGED <<pc, wait, frameLog>>
    /\ UNCHANGED <<inputVars, settled, audioVars, outputVars, seeking,
                   seekedQueue, trackVars, frameIndex, render, inFlight,
                   progressLog, pureVars, pageVars, uploadVars>>

\* variant: the frame is handed to the muxer before the overlay is drawn
FrameStepsAddFirst == <<"clear", "drawVideo", "add", "overlay">>

\* the drawing calls of one frame, in program order
FrameSteps == <<"clear", "drawVideo", "overlay", "add">>

\* if (variant === "pills") drawColoredPillsOverlay else drawTimelineOverlay
OverlayFn(v) ==
    IF v = "pills" THEN "drawColoredPillsOverlay" ELSE "drawTimelineOverlay"

\* what the overlay function of the variant is called with and what it
\* makes of it: whether it draws at all, the eased transition, the weight
\* of every pill, the progress drawTimelineOverlay places its badge at
\* (0 where none is computed) and the opacity drawColoredPillsOverlay
\* draws every pill with
DrawOverlay(v, secs, currentTime, activeIdx, leaving, transitionT) ==
    LET easedT == easeOut(transitionT) IN
    [fn |-> OverlayFn(v),
     currentTime |-> currentTime,
     activeIdx |-> activeIdx,
     leavingIdx |-> leaving,
     transitionT |-> transitionT,
     drawn |-> OverlayDrawn(secs),
     easedT |-> easedT,
     weights |-> [index \in 0..(Len(secs) - 1) |->
                     IF v = "pills"
                     THEN PillsPillT(index, activeIdx, leaving, easedT)
                     ELSE DotsPillT(index, activeIdx, leaving, easedT)],
     pct |-> IF v # "pills" /\ OverlayDrawn(secs)
             THEN OverlayPct(secs, currentTime, activeIdx)
             ELSE RatZero,
     alphas |-> IF v = "pills"
                THEN [index \in 0..(Len(secs) - 1) |->
                         PillAlpha(index, activeIdx,
                                   PillsPillT(index, activeIdx, leaving,
                                              easedT))]
                ELSE <<>>]

\* after the seek wait: active section, transition state, clearRect,
\* drawImage, overlay, and the call of videoSource.add
Composite ==
    /\ pc = "composite"
    /\ LET currentTime == CurrentTime(frameIndex)
           activeIdx == ActiveIdx(sections, currentTime)
           tr == TrackTransition(
                     [prevActiveIdx |-> prevActiveIdx,
                      leavingIdx |-> leavingIdx,
                      transitionStartTime |-> transitionStartTime],
                     activeIdx, currentTime)
           transitionT == TransitionT(tr, currentTime)
       IN /\ prevActiveIdx' = tr.prevActiveIdx
          /\ leavingIdx' = tr.leavingIdx
          /\ transitionStartTime' = tr.transitionStartTime
          /\ render' = DrawOverlay(variant, sections, currentTime, activeIdx,
                                    RenderLeavingIdx(tr, transitionT),
                                    transitionT)
                           @@ [frame |-> frameIndex, stale |-> seeking # -1]
          /\ appendPending' = Append(appendPending,
                                [timestamp |-> currentTime,
                                 duration |-> FrameDuration])
    /\ frameLog' = frameLog \o FrameSteps
    /\ pc' = "appendWait"
    /\ UNCHANGED <<inputVars, settled, audioVars, calls, outputStarted,
                   appended, videoVars, frameIndex, wait, inFlight,
                   progressLog, pureVars, pageVars, uploadVars>>

\* variant: the index is reported without the + 1
ProgressValueOffByOne(fi) == Rat(fi, TotalFrames(duration))

\* onProgress((frameIndex + 1) / totalFrames)
ProgressValue(fi) == Rat(fi + 1, TotalFrames(duration))

\* await videoSource.add(...) resolves; progress is reported and the loop
\* variable is incremented
AppendResolves ==
    /\ pc = "appendWait"
    /\ appendPending # <<>>
    /\ (frameIndex + 1 < TotalFrames(duration))
          => Cardinality(timers) < MaxPendingTimers
    /\ appended' = Append(appended, Head(appendPending))
    /\ appendPending' = Tail(appendPending)
    /\ inFlight' = inFlight \ {frameIndex}
    /\ progressLog' = IF onProgress
                      THEN Append(progressLog, ProgressValue(frameIndex))
                      ELSE progressLog
    /\ frameLog' = frameLog \o (IF onProgress THEN <<"added", "progress">>
                                ELSE <<"added">>)
    /\ frameIndex' = frameIndex + 1
    /\ pc' = "loopHead"
    /\ UNCHANGED <<inputVars, settled, audioVars, calls, outputStarted,
                   videoVars, trackVars, wait, render, pureVars, pageVars, uploadVars>>

\* ... or rejects: the loop has no try, the job rejects
AppendRejects ==
    /\ pc = "appendWait"
    /\ appendPending # <<>>
    /\ appendPending' = Tail(appendPending)
    /\ Reject("videoSource.add failed")
    /\ UNCHANGED <<inputVars, audioVars, calls, outputStarted, appended,
                   videoVars, trackVars, frameVars, pureVars, pageVars, uploadVars>>

\* --------------------------------------------------------------- finalize
\* videoSource.close(); await output.finalize()
FinalizeCall ==
    /\ pc = "loopHead"
    /\ ~LoopCondition
    /\ calls' = calls \o <<"videoSource.close", "finalize">>
    /\ pc' = "finalize"
    /\ UNCHANGED <<inputVars, settled, audioVars, outputStarted, appended,
                   appendPending, videoVars, trackVars, frameVars, pureVars, pageVars, uploadVars>>

\* output.finalize() resolves and the target holds a buffer
FinalizeResolves ==
    /\ pc = "finalize"
    /\ pc' = "resolved"
    /\ settled' = "blob"
    /\ UNCHANGED <<inputVars, audioVars, outputVars, videoVars, trackVars,
                   frameVars, pureVars, pageVars, uploadVars>>

\* if (!outputBuffer) throw new Error("No output buffer")
FinalizeNoBuffer ==
    /\ pc = "finalize"
    /\ Reject("No output buffer")
    /\ UNCHANGED <<inputVars, audioVars, outputVars, videoVars, trackVars,
                   frameVars, pureVars, pageVars, uploadVars>>

FinalizeRejects ==
    /\ pc = "finalize"
    /\ Reject("output.finalize failed")
    /\ UNCHANGED <<inputVars, audioVars, outputVars, videoVars, trackVars,
                   frameVars, pureVars, pageVars, uploadVars>>

\* ---------------------------------------------------------- specification
Next ==
    \/ LoadedMetadata
    \/ VideoError
    \/ CanPlay
    \/ Setup
    \/ FetchResolves
    \/ FetchRejects
    \/ DecodeResolves
    \/ DecodeRejects
    \/ StartResolves
    \/ StartRejects
    \/ AudioAddResolves
    \/ AudioAddRejects
    \/ ContextCloseResolves
    \/ ContextCloseRejects
    \/ CatchStartResolves
    \/ CatchStartRejects
    \/ SeekIssue
    \/ SeekCompletes
    \/ DispatchSeeked
    \/ TimerFires
    \/ Composite
    \/ AppendResolves
    \/ AppendRejects
    \/ FinalizeCall
    \/ FinalizeResolves
    \/ FinalizeNoBuffer
    \/ FinalizeRejects

Spec == Init /\ [][Next]_vars

\* the same job, with the scheduling the platform guarantees: a timer that
\* was set fires, and a resumed async function runs on
InitFair == Init /\ duration < MaxDuration

FairSpec ==
    /\ InitFair
    /\ [][Next]_vars
    /\ WF_vars(TimerFires)
    /\ WF_vars(Composite)

\* the same job where everything but the 'canplay' and 'seeked' events is
\* bound to happen: the metadata loads or fails, every promise of the
\* network, the audio decoder and the muxer settles, timers fire, and the
\* function runs on when it is resumed
SettleSpec ==
    /\ InitFair
    /\ [][Next]_vars
    /\ WF_vars(LoadedMetadata \/ VideoError)
    /\ WF_vars(Setup)
    /\ WF_vars(FetchResolves \/ FetchRejects)
    /\ WF_vars(DecodeResolves \/ DecodeRejects)
    /\ WF_vars(StartResolves \/ StartRejects)
    /\ WF_vars(AudioAddResolves \/ AudioAddRejects)
    /\ WF_vars(ContextCloseResolves \/ ContextCloseRejects)
    /\ WF_vars(CatchStartResolves \/ CatchStartRejects)
    /\ WF_vars(SeekIssue)
    /\ WF_vars(TimerFires)
    /\ WF_vars(Composite)
    /\ WF_vars(AppendResolves \/ AppendRejects)
    /\ WF_vars(FinalizeCall)
    /\ WF_vars(FinalizeResolves \/ FinalizeNoBuffer \/ FinalizeRejects)

\* ------------------------------------------------------- pure functions
\* every list of at most MaxSections sections over 0..MaxT, in any order
AnyLists ==
    UNION {[1..n -> SectionsOver(0..MaxT)] : n \in 0..MaxSections}

\* the analyze route reports the endTime of the last section as the
\* duration; an empty list comes with any duration
InitPure ==
    /\ sections \in AnyLists
    /\ duration \in (IF Len(sections) > 0
                     THEN {sections[Len(sections)].endTime}
                     ELSE 0..MaxT)
    /\ t \in 0..MaxT
    /\ textWidths = <<>>
    /\ canvasWidth = 1280
    /\ out = NoOut
    /\ IdleUploader
    /\ IdlePage
    /\ reply = NoReply
    /\ declared = 0
    /\ variant = "dots"
    /\ onProgress = FALSE
    /\ InitJob

\* the active index as the encoder and the two preview components find it
Resolve ==
    /\ out = NoOut
    /\ out' = [op |-> "resolve",
               encoder |-> ActiveIdx(sections, t),
               pills |-> PillsTickIdx(sections, t),
               dots |-> DotsTickIdx(sections, t)]
    /\ UNCHANGED <<inputVars, pc, settled, audioVars, outputVars, videoVars,
                   trackVars, frameVars, pureInputs, pageVars, uploadVars>>

\* the progress fraction as drawTimelineOverlay (which returns early for an
\* empty list) and the TimelineDots tick compute it
Progress ==
    /\ out = NoOut
    /\ out' = [op |-> "progress",
               drawn |-> Len(sections) > 0,
               encoder |-> IF Len(sections) > 0
                           THEN OverlayPct(sections, t, ActiveIdx(sections, t))
                           ELSE RatZero,
               dots |-> DotsTickPct(sections, t, duration),
               encoderIdx |-> ActiveIdx(sections, t),
               dotsIdx |-> DotsTickIdx(sections, t),
               encoderBadge |-> IF Len(sections) > 0
                                THEN PercentText(OverlayPct(
                                         sections, t, ActiveIdx(sections, t)))
                                ELSE 0,
               dotsBadge |-> PercentText(DotsTickPct(sections, t, duration))]
    /\ UNCHANGED <<inputVars, pc, settled, audioVars, outputVars, videoVars,
                   trackVars, frameVars, pureInputs, pageVars, uploadVars>>

PureNext == Resolve \/ Progress

PureSpec == InitPure /\ [][PureNext]_vars

\* ------------------------------------------------------------ pill layout
\* variant: Math.floor instead of Math.round
MathFloor(x) == x[1] \div x[2]

\* Math.round of a fraction that is not negative
MathRound(x) == (2 * x[1] + x[2]) \div (2 * x[2])

\* Math.round(px * S) with S = canvasWidth / 1280
Scaled(px, cw) == MathRound(Rat(px * cw, 1280))

RECURSIVE SumTo(_, _)
SumTo(f, n) == IF n = 0 THEN 0 ELSE f[n] + SumTo(f, n - 1)

\* sections.reduce((sum, s) => sum + (s.endTime - s.startTime), 0)
TotalDuration(secs) ==
    SumTo([i \in 1..Len(secs) |-> secs[i].endTime - secs[i].startTime],
          Len(secs))

PillGap(cw) == Scaled(10, cw)
MaxPillsWidth(cw) == Scaled(620, cw)
PadX(cw) == Scaled(24, cw)

\* const availableWidth = maxPillsWidth - pillGap * (numSections - 1)
AvailableWidth(secs, cw) == MaxPillsWidth(cw) - PillGap(cw) * (Len(secs) - 1)

\* "First pass": minW = textW + padX * 2
MinWidths(secs, widths, cw) ==
    [i \in 1..Len(secs) |-> widths[i] + PadX(cw) * 2]

\* const extraSpace = Math.max(0, availableWidth - totalMinWidth)
ExtraSpace(secs, widths, cw) ==
    LET rest == AvailableWidth(secs, cw)
                   - SumTo(MinWidths(secs, widths, cw), Len(secs))
    IN IF rest > 0 THEN rest ELSE 0

\* Math.round(minWidths[index] + extraShare)
PillWidths(secs, widths, cw) ==
    LET totalDuration == TotalDuration(secs)
        minWidths == MinWidths(secs, widths, cw)
        extraSpace == ExtraSpace(secs, widths, cw)
    IN [i \in 1..Len(secs) |->
           LET secDur == secs[i].endTime - secs[i].startTime
               extraShare == IF totalDuration > 0
                             THEN Rat(secDur * extraSpace, totalDuration)
                             ELSE RatZero
           IN MathRound(RatAdd(Rat(minWidths[i], 1), extraShare))]

\* const actualTotalWidth = pillWidths.reduce(...) + pillGap * (N - 1)
ActualTotalWidth(secs, widths, cw) ==
    SumTo(PillWidths(secs, widths, cw), Len(secs))
        + PillGap(cw) * (Len(secs) - 1)

\* widths ctx.measureText reports for a section name, in px: two short
\* names and one too long for the row
TextWidths == {40, 41, 300}
\* video widths: S = 1/2 and S = 1
CanvasWidths == {640, 1280}

\* non-empty section lists in time order over 0..MaxT
LayoutLists ==
    {l \in OrderedLists(0..MaxT) : Len(l) >= 1 /\ Len(l) <= MaxSections}

InitLayout ==
    /\ sections \in LayoutLists
    /\ duration = sections[Len(sections)].endTime
    /\ textWidths \in [1..Len(sections) -> TextWidths]
    /\ canvasWidth \in CanvasWidths
    /\ t = 0
    /\ out = NoOut
    /\ variant = "pills"
    /\ onProgress = FALSE
    /\ InitJob
    /\ IdleUploader
    /\ IdlePage
    /\ reply = NoReply
    /\ declared = 0

\* drawColoredPillsOverlay, from "Calculate total duration" to "Compute
\* actual total"
Layout ==
    /\ out = NoOut
    /\ OverlayDrawn(sections)
    /\ out' = [op |-> "layout",
               pillGap |-> PillGap(canvasWidth),
               maxPillsWidth |-> MaxPillsWidth(canvasWidth),
               minWidths |-> MinWidths(sections, textWidths, canvasWidth),
               pillWidths |-> PillWidths(sections, textWidths, canvasWidth),
               actualTotalWidth |->
                   ActualTotalWidth(sections, textWidths, canvasWidth)]
    /\ UNCHANGED <<inputVars, pc, settled, audioVars, outputVars, videoVars,
                   trackVars, frameVars, pureInputs, pageVars, uploadVars>>

LayoutNext == Layout

LayoutSpec == InitLayout /\ [][LayoutNext]_vars

\* ------------------------------------------------------------ upload gate
\* VideoUploader.tsx
MAX_DURATION_SECONDS == 90
MAX_FILE_SIZE_MB == 100
SUPPORTED_FORMATS ==
    {"video/mp4", "video/webm", "video/quicktime", "video/x-msvideo"}
\* route.ts: its own limit, and process.env.GEMINI_API_KEY of a deployment
\* set up as the README says ("" when the variable is not set)
ROUTE_MAX_DURATION_SECONDS == 90
GEMINI_API_KEY == "key"

\* media durations are counted in half seconds
HalvesPerSecond == 2

\* files a user can pick: a type, a size in bytes, and the duration the
\* metadata report, around the three limits
FileTypes == {"video/mp4", "video/x-msvideo", "video/ogg"}
FileSizes == {MAX_FILE_SIZE_MB * 1024 * 1024,
              MAX_FILE_SIZE_MB * 1024 * 1024 + 1}
MediaDurations == {MAX_DURATION_SECONDS * HalvesPerSecond - 1,
                   MAX_DURATION_SECONDS * HalvesPerSecond,
                   MAX_DURATION_SECONDS * HalvesPerSecond + 1}
Files == [type : FileTypes, size : FileSizes, duration : MediaDurations]

\* SUPPORTED_FORMATS.includes(file.type)
TypeSupported(f) == f.type \in SUPPORTED_FORMATS

\* variant: the size is not looked at
SizeAllowedAlways(f) == TRUE

\* !(file.size / (1024 * 1024) > MAX_FILE_SIZE_MB)
SizeAllowed(f) == ~(f.size > MAX_FILE_SIZE_MB * 1024 * 1024)

\* duration.toString(): the decimal string of a number of half seconds,
\* "90" or "90.5", kept as its integer part and its fraction digit
DurationToString(d) ==
    [present |-> TRUE, whole |-> d \div HalvesPerSecond,
     tenths |-> 5 * (d % HalvesPerSecond)]

\* a form without a duration field: formData.get gives null
NoDurationField == [present |-> FALSE, whole |-> 0, tenths |-> 0]

\* parseFloat(durationStr), in half seconds; NaN for a missing field
parseFloat(str) ==
    IF str.present
    THEN [nan |-> FALSE,
          halves |-> str.whole * HalvesPerSecond
                        + (str.tenths * HalvesPerSecond) \div 10]
    ELSE [nan |-> TRUE, halves |-> 0]

\* the catch and finally blocks of handleFileUpload
UploadFailed(u, message) ==
    [u EXCEPT !.pc = "idle", !.error = message, !.videoPreviewUrl = "null",
              !.isLoading = FALSE]

\* handleFileUpload(file) up to its first await: setError(null),
\* setIsLoading(true), the type and size checks, the preview URL, the
\* video element, validateVideoDuration(video)
HandleFileUpload(f) ==
    /\ upload.pc = "idle"
    /\ ~upload.navigated
    /\ upload.attempts < MaxUploads
    /\ file' = f
    /\ LET started == [upload EXCEPT !.error = "null", !.isLoading = TRUE,
                                     !.attempts = @ + 1, !.posted = FALSE]
       IN upload' =
             IF ~TypeSupported(f)
             THEN UploadFailed(started, "Unsupported format")
             ELSE IF ~SizeAllowed(f)
             THEN UploadFailed(started, "File size must be less than 100MB")
             ELSE [started EXCEPT !.pc = "metadata",
                                  !.videoPreviewUrl = "blob"]
    /\ UNCHANGED <<inputVars, pc, settled, audioVars, outputVars, videoVars,
                   trackVars, frameVars, pureVars, pageVars, requests>>

\* videoElement.onloadedmetadata of validateVideoDuration: reject above 90 s,
\* else resolve; handleFileUpload then posts the form to /api/analyze
MetadataLoaded ==
    /\ upload.pc = "metadata"
    /\ IF file.duration > MAX_DURATION_SECONDS * HalvesPerSecond
       THEN /\ upload' = UploadFailed(upload,
                                      "Video must be 90 seconds or less")
            /\ UNCHANGED requests
       ELSE /\ upload' = [upload EXCEPT !.pc = "fetch", !.posted = TRUE]
            /\ requests' = Append(requests,
                               [from |-> "uploader",
                                hasFile |-> TRUE,
                                of |-> file,
                                duration |-> DurationToString(file.duration),
                                status |-> 0,
                                error |-> "null"])
    /\ UNCHANGED <<inputVars, pc, settled, audioVars, outputVars, videoVars,
                   trackVars, frameVars, pureVars, pageVars, file>>

\* videoElement.onerror of validateVideoDuration
MetadataError ==
    /\ upload.pc = "metadata"
    /\ upload' = UploadFailed(upload, "Failed to load video metadata")
    /\ UNCHANGED <<inputVars, pc, settled, audioVars, outputVars, videoVars,
                   trackVars, frameVars, pureVars, pageVars, file, requests>>

Without(seq, i) == SubSeq(seq, 1, i - 1) \o SubSeq(seq, i + 1, Len(seq))

\* another client posts a multipart form of its own
DirectPost ==
    /\ Cardinality({i \in DOMAIN requests : requests[i].from = "other"})
          < MaxDirectPosts
    /\ \E hasFile \in BOOLEAN,
          str \in {DurationToString(MAX_DURATION_SECONDS * HalvesPerSecond),
                    DurationToString(MAX_DURATION_SECONDS * HalvesPerSecond
                                        + 1),
                    NoDurationField} :
          requests' = Append(requests,
                             [from |-> "other",
                              hasFile |-> hasFile, of |-> NoFile,
                              duration |-> str, status |-> 0,
                              error |-> "null"])
    /\ UNCHANGED <<inputVars, pc, settled, audioVars, outputVars, videoVars,
                   trackVars, frameVars, pureVars, pageVars, file, upload>>

\* route.ts, POST, for a multipart form: the API key, the file, the
\* duration; then the analysis, which gives sections, gives none or throws
POST(form, analysis) ==
    IF GEMINI_API_KEY = ""
    THEN [status |-> 500, error |-> "Gemini API key not configured"]
    ELSE IF ~form.hasFile
    THEN [status |-> 400, error |-> "No file provided"]
    ELSE IF /\ ~parseFloat(form.duration).nan
            /\ parseFloat(form.duration).halves
                  > ROUTE_MAX_DURATION_SECONDS * HalvesPerSecond
    THEN [status |-> 400,
          error |-> "Video duration must be 90 seconds or less"]
    ELSE IF analysis = "throws"
    THEN [status |-> 500, error |-> "Failed to analyze video"]
    ELSE IF analysis = "no sections"
    THEN [status |-> 500, error |-> "Failed to detect sections in video"]
    ELSE [status |-> 200, error |-> "null"]

\* the server answers a request that is waiting
ServerAnswers ==
    /\ \E i \in DOMAIN requests :
          /\ requests[i].status = 0
          /\ \E analysis \in {"sections", "no sections", "throws"} :
                requests' = [requests EXCEPT
                                ![i].status = POST(requests[i], analysis).status,
                                ![i].error = POST(requests[i], analysis).error]
    /\ UNCHANGED <<inputVars, pc, settled, audioVars, outputVars, videoVars,
                   trackVars, frameVars, pureVars, pageVars, file, upload>>

\* the other client takes the answer to its form
DirectResponse ==
    /\ \E i \in DOMAIN requests :
          /\ requests[i].from = "other"
          /\ requests[i].status # 0
          /\ requests' = Without(requests, i)
    /\ UNCHANGED <<inputVars, pc, settled, audioVars, outputVars, videoVars,
                   trackVars, frameVars, pureVars, pageVars, file, upload>>

\* the request of the running attempt
OwnRequest == CHOOSE i \in DOMAIN requests : requests[i].from = "uploader"

\* await fetch(...) resolves: if (!response.ok) throw the server's error;
\* else the result is stored and router.push("/preview") is called
ResponseHandled ==
    /\ upload.pc = "fetch"
    /\ requests[OwnRequest].status # 0
    /\ upload' = IF requests[OwnRequest].status # 200
                 THEN UploadFailed(upload, requests[OwnRequest].error)
                 ELSE [upload EXCEPT !.pc = "idle", !.navigated = TRUE,
                                     !.isLoading = FALSE]
    /\ requests' = Without(requests, OwnRequest)
    /\ UNCHANGED <<inputVars, pc, settled, audioVars, outputVars, videoVars,
                   trackVars, frameVars, pureVars, pageVars, file>>

\* await fetch(...) rejects: the network failed
UploadFetchFails ==
    /\ upload.pc = "fetch"
    /\ requests[OwnRequest].status = 0
    /\ upload' = UploadFailed(upload, "Failed to fetch")
    /\ requests' = Without(requests, OwnRequest)
    /\ UNCHANGED <<inputVars, pc, settled, audioVars, outputVars, videoVars,
                   trackVars, frameVars, pureVars, pageVars, file>>

InitUpload ==
    /\ sections = <<>>
    /\ duration = 0
    /\ variant = "dots"
    /\ onProgress = FALSE
    /\ InitJob
    /\ t = 0
    /\ textWidths = <<>>
    /\ canvasWidth = 1280
    /\ out = NoOut
    /\ IdleUploader
    /\ IdlePage
    /\ reply = NoReply
    /\ declared = 0

UploadNext ==
    \/ \E f \in Files : HandleFileUpload(f)
    \/ MetadataLoaded
    \/ MetadataError
    \/ DirectPost
    \/ ServerAnswers
    \/ DirectResponse
    \/ ResponseHandled
    \/ UploadFetchFails

UploadSpec == InitUpload /\ [][UploadNext]_vars

\* ------------------------------------------- the analyze route's answer
\* a number of the route's section times, in twentieths of a second (the
\* unit in which a tenth of a duration given in half seconds is whole)
Num(v) == [nan |-> FALSE, v |-> v]
NaN == [nan |-> TRUE, v |-> 0]

\* duration * 0.2, * 0.5, * 0.7, * 0.9 and duration itself (tenths = 10)
Scale(dur, tenths) == IF dur.nan THEN NaN ELSE Num(dur.halves * tenths)

RouteSection(name, startTime, endTime) ==
    [name |-> name, startTime |-> startTime, endTime |-> endTime]

\* what generateContent gave: it threw, or its text does not parse as JSON,
\* or parses without a sections array, or parses with one (of Section
\* objects, in whatever order the detector listed them)
DetectorReplies ==
    {[kind |-> k, list |-> <<>>] : k \in {"throws", "unparsable", "ill-shaped"}}
        \cup {[kind |-> "sections", list |-> l] : l \in AnyLists}

\* the catch block: the five default sections
DefaultSections(dur) ==
    <<RouteSection("Intro", Num(0), Scale(dur, 2)),
      RouteSection("Features", Scale(dur, 2), Scale(dur, 5)),
      RouteSection("Best Feature", Scale(dur, 5), Scale(dur, 7)),
      RouteSection("Outcome", Scale(dur, 7), Scale(dur, 9)),
      RouteSection("Outro", Scale(dur, 9), Scale(dur, 10))>>

\* "Parse the response": parsed.sections when it is an array, the default
\* sections when JSON.parse or the shape test throws
ParsedSections(r, dur) ==
    IF r.kind = "sections"
    THEN [i \in 1..Len(r.list) |->
             RouteSection("detected", Num(r.list[i].startTime),
                          Num(r.list[i].endTime))]
    ELSE DefaultSections(dur)

\* (a, b) => a.startTime - b.startTime; sort reads a NaN result as +0
Compare(a, b) ==
    IF a.startTime.nan \/ b.startTime.nan
    THEN 0
    ELSE a.startTime.v - b.startTime.v

\* Array.prototype.sort with that comparator: stable
RECURSIVE InsertSorted(_, _)
InsertSorted(sorted, x) ==
    IF sorted = <<>>
    THEN <<x>>
    ELSE IF Compare(sorted[Len(sorted)], x) <= 0
    THEN Append(sorted, x)
    ELSE Append(InsertSorted(SubSeq(sorted, 1, Len(sorted) - 1), x),
                sorted[Len(sorted)])

RECURSIVE SortByStart(_)
SortByStart(l) ==
    IF l = <<>>
    THEN <<>>
    ELSE InsertSorted(SortByStart(SubSeq(l, 1, Len(l) - 1)), l[Len(l)])

\* which of POST's three analysis outcomes a reply is
AnalysisOutcome(r) ==
    IF r.kind = "throws"
    THEN "throws"
    ELSE IF r.kind = "sections" /\ r.list = <<>>
    THEN "no sections"
    ELSE "sections"

\* POST with the body of its success answer: the sections sorted by
\* startTime, videoDuration the endTime of the last of them
Respond(form, r) ==
    LET gate == POST(form, AnalysisOutcome(r))
        secs == SortByStart(ParsedSections(r, parseFloat(form.duration)))
    IN  IF gate.status # 200
        THEN gate
        ELSE [status |-> 200, error |-> "null", success |-> TRUE,
              sections |-> secs,
              videoDuration |-> secs[Len(secs)].endTime,
              videoUrl |-> ""]

\* the duration fields a form may carry: 0, 0.5, 90 and 90.5 seconds, or none
DurationFields ==
    {DurationToString(h) :
        h \in {0, 1, MAX_DURATION_SECONDS * HalvesPerSecond,
               MAX_DURATION_SECONDS * HalvesPerSecond + 1}}
        \cup {NoDurationField}

InitAnalyze ==
    /\ reply \in DetectorReplies
    /\ \E hasFile \in BOOLEAN, str \in DurationFields :
          requests = <<[from |-> "other", hasFile |-> hasFile, of |-> NoFile,
                        duration |-> str, status |-> 0, error |-> "null"]>>
    /\ file = NoFile
    /\ upload = [pc |-> "idle", isLoading |-> FALSE, error |-> "null",
                 videoPreviewUrl |-> "null", navigated |-> FALSE,
                 attempts |-> 0, posted |-> FALSE]
    /\ IdlePage
    /\ declared = 0
    /\ sections = <<>>
    /\ duration = 0
    /\ variant = "dots"
    /\ onProgress = FALSE
    /\ InitJob
    /\ t = 0
    /\ textWidths = <<>>
    /\ canvasWidth = 1280
    /\ out = NoOut

\* one request answered, with the detector's reply to it
Analyze ==
    /\ out = NoOut
    /\ out' = [op |-> "analyze", response |-> Respond(requests[1], reply)]
    /\ UNCHANGED <<inputVars, pc, settled, audioVars, outputVars, videoVars,
                   trackVars, frameVars, pureInputs, pageVars, uploadVars>>

AnalyzeNext == Analyze

AnalyzeSpec == InitAnalyze /\ [][AnalyzeNext]_vars

\* ------------------------------------------ the frame clock in doubles
\* A positive double is [m, e]: m its 53 significand bits, first bit 1,
\* most significant first; e the exponent of the last of them. The value
\* is m, read as a binary numeral, times 2^e.

\* the binary numeral of a natural number, without leading zeros
IntBits(q) ==
    LET width == IF q = 0
                 THEN 0
                 ELSE CHOOSE w \in 1..31 : 2 ^ (w - 1) <= q /\ q \div 2 ^ (w - 1) < 2
    IN  [i \in 1..width |-> (q \div 2 ^ (width - i)) % 2]

\* the numeral of q written with exactly width bits, for q < 2^width
FixedBits(q, width) == [i \in 1..width |-> (q \div 2 ^ (width - i)) % 2]

RECURSIVE BitsValue(_)
BitsValue(bits) ==
    IF bits = <<>>
    THEN 0
    ELSE 2 * BitsValue(SubSeq(bits, 1, Len(bits) - 1)) + bits[Len(bits)]

\* 2^n modulo m, by squaring
RECURSIVE Pow2Mod(_, _)
Pow2Mod(n, m) ==
    IF n = 0
    THEN 1 % m
    ELSE IF n % 2 = 0
    THEN (Pow2Mod(n \div 2, m) * Pow2Mod(n \div 2, m)) % m
    ELSE (2 * Pow2Mod(n - 1, m)) % m

\* what is left of r / den after its first n bits behind the binary point,
\* as a numerator over den, for 0 <= r < den
RemAfter(r, den, n) == (r * Pow2Mod(n, den)) % den

\* the first n bits after the binary point of r / den
FracBits(r, den, n) == [i \in 1..n |-> (2 * RemAfter(r, den, i - 1)) \div den]

\* the zero bits between the binary point and the first 1 of r / den
RECURSIVE LeadingZeros(_, _)
LeadingZeros(r, den) ==
    IF 2 * r >= den THEN 0 ELSE 1 + LeadingZeros(2 * r, den)

\* bits + 1: the last 0 becomes 1 and the ones after it 0; all ones give
\* 1 0 ... 0, one bit longer
Incremented(bits) ==
    IF \A i \in DOMAIN bits : bits[i] = 1
    THEN [i \in 1..(Len(bits) + 1) |-> IF i = 1 THEN 1 ELSE 0]
    ELSE LET last == CHOOSE j \in DOMAIN bits :
                        /\ bits[j] = 0
                        /\ \A i \in (j + 1)..Len(bits) : bits[i] = 1
         IN  [i \in DOMAIN bits |->
                 IF i < last THEN bits[i] ELSE IF i = last THEN 1 ELSE 0]

\* round to nearest, ties to even: bits are the 53 leading bits of the
\* exact value, guard the bit after them, sticky whether anything follows
RoundNearestEven(bits, e, guard, sticky) ==
    IF guard = 1 /\ (sticky \/ bits[Len(bits)] = 1)
    THEN LET up == Incremented(bits) IN
         IF Len(up) > Len(bits)
         THEN [m |-> SubSeq(up, 1, Len(bits)), e |-> e + 1]
         ELSE [m |-> up, e |-> e]
    ELSE [m |-> bits, e |-> e]

\* the double nearest to num / den, for naturals num > 0 and den > 0: what
\* the literal 8.3 denotes (num = 83, den = 10) and what the division
\* frameIndex / fps gives
DoubleOf(num, den) ==
    LET int == IntBits(num \div den)
        r == num % den
    IN  IF int # <<>>
        THEN LET n == 53 - Len(int) IN
             RoundNearestEven(int \o FracBits(r, den, n), -n,
                              FracBits(RemAfter(r, den, n), den, 1)[1],
                              RemAfter(r, den, n + 1) # 0)
        ELSE LET z == LeadingZeros(r, den)
                 r1 == RemAfter(r, den, z)
             IN  RoundNearestEven(FracBits(r1, den, 53), -(z + 53),
                                  FracBits(RemAfter(r1, den, 53), den, 1)[1],
                                  RemAfter(r1, den, 54) # 0)

\* the binary numeral of k times the 53-bit numeral bits, for k < 2^12: the
\* product taken on three pieces of 17, 18 and 18 bits, the carries passed
\* upward
TimesSmall(bits, k) ==
    LET low == BitsValue(SubSeq(bits, 36, 53)) * k
        mid == BitsValue(SubSeq(bits, 18, 35)) * k + low \div 2 ^ 18
        high == BitsValue(SubSeq(bits, 1, 17)) * k + mid \div 2 ^ 18
    IN  IntBits(high) \o FixedBits(mid % 2 ^ 18, 18)
                      \o FixedBits(low % 2 ^ 18, 18)

\* x * k in doubles, for a natural k > 0: the exact product, rounded
DoubleTimes(x, k) ==
    LET product == TimesSmall(x.m, k)
        extra == Len(product) - 53
    IN  IF extra = 0
        THEN [m |-> product, e |-> x.e]
        ELSE RoundNearestEven(
                 SubSeq(product, 1, 53), x.e + extra, product[54],
                 \E i \in 55..Len(product) : product[i] = 1)

\* Math.ceil(x) for a double x below 2^53
MathCeil(x) ==
    LET whole == 53 + x.e
    IN  IF whole <= 0
        THEN 1
        ELSE BitsValue(SubSeq(x.m, 1, whole))
                + (IF \E i \in (whole + 1)..53 : x.m[i] = 1 THEN 1 ELSE 0)

\* a < b on positive doubles
DoubleLt(a, b) ==
    \/ a.e < b.e
    \/ /\ a.e = b.e
       /\ \E i \in 1..53 : /\ a.m[i] < b.m[i]
                           /\ \A j \in 1..(i - 1) : a.m[j] = b.m[j]

\* a job over one section [0, duration], the duration declared / 10
\* seconds: the argument as the double the call receives
InitClock ==
    /\ declared \in 1..MaxTenths
    /\ sections = <<Section(0, declared)>>
    /\ duration = declared
    /\ variant = "dots"
    /\ onProgress = FALSE
    /\ InitJob
    /\ t = 0
    /\ textWidths = <<>>
    /\ canvasWidth = 1280
    /\ reply = NoReply
    /\ out = [op |-> "duration", duration |-> DoubleOf(declared, 10)]
    /\ IdleUploader
    /\ IdlePage

\* const totalFrames = Math.ceil(duration * fps)
CountFrames ==
    /\ out.op = "duration"
    /\ out' = [op |-> "totalFrames",
               duration |-> out.duration,
               totalFrames |-> MathCeil(DoubleTimes(out.duration, fps))]
    /\ UNCHANGED <<inputVars, pc, settled, audioVars, outputVars, videoVars,
                   trackVars, frameVars, pureInputs, pageVars, uploadVars>>

\* the last pass of the frame loop: currentTime = frameIndex / fps for
\* frameIndex = totalFrames - 1, whether findIndex finds the section at
\* that time (currentTime < endTime), and whether pct comes out as 1: when
\* the section is not found the fallback takes it and sectionProg is
\* Math.min(duration / duration, 1); when it is found, currentTime is a
\* double below duration and the quotient rounds to a double below 1
LastFrame ==
    /\ out.op = "totalFrames"
    /\ out' = [op |-> "lastFrame",
               duration |-> out.duration,
               totalFrames |-> out.totalFrames,
               currentTime |-> DoubleOf(out.totalFrames - 1, fps),
               found |-> DoubleLt(DoubleOf(out.totalFrames - 1, fps),
                                  out.duration),
               pctIsOne |-> ~DoubleLt(DoubleOf(out.totalFrames - 1, fps),
                                      out.duration)]
    /\ UNCHANGED <<inputVars, pc, settled, audioVars, outputVars, videoVars,
                   trackVars, frameVars, pureInputs, pageVars, uploadVars>>

ClockNext == CountFrames \/ LastFrame

ClockSpec == InitClock /\ [][ClockNext]_vars

\* ------------------------------------------------------ the preview page
\* variant: the button is never disabled
DownloadDisabledNever(isEncoding) == FALSE

\* DownloadButton: <button onClick={onDownload} disabled={isEncoding}>
DownloadDisabled(isEncoding) == isEncoding

\* the page with its analysis result loaded, showing the dots variant
InitPage ==
    /\ duration \in Durations
    /\ sections = IF duration > 0 THEN <<Section(0, duration)>> ELSE <<>>
    /\ variant = "dots"
    /\ onProgress = TRUE
    /\ InitJob
    /\ t = 0
    /\ textWidths = <<>>
    /\ canvasWidth = 1280
    /\ reply = NoReply
    /\ declared = 0
    /\ out = NoOut
    /\ IdleUploader
    /\ IdlePage

\* a click on the Download button, which a disabled button does not take:
\* handleDownload up to its await, setIsEncoding(true), setProgress(0) and
\* the call of encodeVideoWithOverlay; React renders the two updates before
\* the click event is over
HandleDownload ==
    /\ ~page.disabled
    /\ page.downloads < MaxDownloads
    /\ page' = [page EXCEPT !.isEncoding = TRUE,
                            !.progress = 0,
                            !.disabled = DownloadDisabled(TRUE),
                            !.shown = 0,
                            !.running = @ + 1,
                            !.reported = 0,
                            !.downloads = @ + 1]
    /\ UNCHANGED <<inputVars, pc, settled, audioVars, outputVars, videoVars,
                   trackVars, frameVars, pureVars, uploadVars>>

\* the job reports a frame: (p) => setProgress(Math.floor(p * 100))
ProgressReported ==
    /\ page.running > 0
    /\ page.reported < TotalFrames(duration)
    /\ page' = [page EXCEPT !.progress = PercentText(ProgressValue(page.reported)),
                            !.reported = @ + 1]
    /\ UNCHANGED <<inputVars, pc, settled, audioVars, outputVars, videoVars,
                   trackVars, frameVars, pureVars, uploadVars>>

\* the finally block: setIsEncoding(false), setProgress(0)
Settled(p) ==
    [p EXCEPT !.isEncoding = FALSE, !.progress = 0, !.running = @ - 1]

\* the job resolves after its last frame: the toasts, the download link,
\* then the finally block
EncodeResolves ==
    /\ page.running > 0
    /\ page.reported = TotalFrames(duration)
    /\ page' = Settled(page)
    /\ UNCHANGED <<inputVars, pc, settled, audioVars, outputVars, videoVars,
                   trackVars, frameVars, pureVars, uploadVars>>

\* the job rejects, at any point: the catch block, then the finally block
EncodeRejects ==
    /\ page.running > 0
    /\ page' = Settled(page)
    /\ UNCHANGED <<inputVars, pc, settled, audioVars, outputVars, videoVars,
                   trackVars, frameVars, pureVars, uploadVars>>

\* React renders the state set outside an event handler
Commit ==
    /\ \/ page.disabled # DownloadDisabled(page.isEncoding)
       \/ page.shown # page.progress
    /\ page' = [page EXCEPT !.disabled = DownloadDisabled(page.isEncoding),
                            !.shown = page.progress]
    /\ UNCHANGED <<inputVars, pc, settled, audioVars, outputVars, videoVars,
                   trackVars, frameVars, pureVars, uploadVars>>

\* the variant toggle of the timeline overlay: onVariantChange
SetTimelineVariant ==
    /\ \E v \in {"dots", "pills"} :
          /\ v # variant
          /\ variant' = v
    /\ UNCHANGED <<sections, duration, onProgress, pc, settled, audioVars,
                   outputVars, videoVars, trackVars, frameVars, pureVars,
                   pageVars, uploadVars>>

PageNext ==
    \/ HandleDownload
    \/ ProgressReported
    \/ EncodeResolves
    \/ EncodeRejects
    \/ Commit
    \/ SetTimelineVariant

PageSpec == InitPage /\ [][PageNext]_vars

\* ======================================================== checked claims
Range(f) == {f[i] : i \in DOMAIN f}
IsPrefix(a, b) == Len(a) <= Len(b) /\ \A i \in 1..Len(a) : a[i] = b[i]

\* ceil(dur * fps) for dur in ticks, stated without the code's formula: the
\* least n with n / fps >= dur / TicksPerSecond
CeilFrames(dur) ==
    CHOOSE n \in 0..(dur * fps) :
        /\ n * TicksPerSecond >= dur * fps
        /\ \A m \in 0..(n - 1) : m * TicksPerSecond < dur * fps

C2_ProgressReports ==
    /\ ~onProgress => progressLog = <<>>
    /\ onProgress =>
          /\ Len(progressLog) = Len(appended)
          /\ \A i \in 1..Len(progressLog) :
                /\ RatEq(progressLog[i], Rat(i, CeilFrames(duration)))
                /\ i > 1 => RatLe(progressLog[i - 1], progressLog[i])
          /\ (pc = "resolved" /\ duration > 0)
                => RatEq(progressLog[Len(progressLog)], RatOne)
          /\ \A i \in 1..Len(frameLog) :
                frameLog[i] = "progress" => i > 1 /\ frameLog[i - 1] = "added"

\* a job with a callback resolved after several reports
C2_Witness ==
    /\ pc = "resolved"
    /\ onProgress
    /\ Len(progressLog) >= 3
    /\ RatLt(progressLog[1], progressLog[2])

\* the steps of one frame in the order the claim gives
FrameOrder ==
    <<"seek", "released", "clear", "drawVideo", "overlay", "add", "added">>
        \o (IF onProgress THEN <<"progress">> ELSE <<>>)

\* C3: the frame loop is strictly sequential: within a frame the steps run
\* in the order seek, release, clear and draw, overlay, append, progress;
\* the next seek is not issued before the append completed; never are two
\* frames in flight.
C3_Sequential ==
    /\ IsPrefix(frameLog, FrameOrder)
    /\ pc = "seekWait" => Len(appended) = frameIndex /\ appendPending = <<>>
    /\ Len(appendPending) <= 1
    /\ Cardinality(inFlight) <= 1
    /\ inFlight \subseteq {frameIndex}

\* the third frame went through every step
C3_Witness ==
    /\ frameLog = FrameOrder
    /\ frameIndex = 3
    /\ onProgress

\* a video sample was handed to the muxer
VideoSampleGiven == appended # <<>> \/ appendPending # <<>>

\* decodeAudioData resolved (the audio track is added right after it)
Decoded == "addAudioTrack" \in Range(calls)

Position(seq, x) == Min({i \in DOMAIN seq : seq[i] = x})
StartCalls == Cardinality({i \in DOMAIN calls : calls[i] = "start"})

\* C4: when audio decoding succeeds, the audio track is created before the
\* output is started, and the whole decoded buffer is added to it (and the
\* audio source closed) before the first video frame is appended; no video
\* sample is appended before the output was started.
C4_AudioBeforeVideo ==
    /\ (Decoded /\ "start" \in Range(calls))
          => Position(calls, "addAudioTrack") < Position(calls, "start")
    /\ (Decoded /\ VideoSampleGiven)
          => "audioAdded" \in Range(calls) /\ audioSource = "closed"
    /\ VideoSampleGiven => outputStarted

\* C5: if fetch or decodeAudioData fails, the job does not reject for it:
\* the failure is logged, the output is started without an audio track and
\* the frame loop runs to its end, giving a video-only Blob.
C5_AudioFailureContinues ==
    audioFailure \in {"fetch", "decode"} =>
        /\ warned
        /\ "addAudioTrack" \notin Range(calls)
        /\ StartCalls = 1
        /\ pc \in {"catchStart", "loopHead", "seekWait", "composite",
                   "appendWait", "finalize", "resolved", "rejected"}
        /\ pc = "rejected" => settled \in {"output.start failed",
                                           "videoSource.add failed",
                                           "output.finalize failed",
                                           "No output buffer"}
        /\ VideoSampleGiven => outputStarted
        /\ pc = "resolved" => /\ settled = "blob"
                              /\ Len(appended) = CeilFrames(duration)

\* a job whose audio could not be decoded resolved with all its frames
C5_Witness ==
    /\ audioFailure = "decode"
    /\ pc = "resolved"
    /\ settled = "blob"
    /\ Len(appended) >= 2
    /\ "addAudioTrack" \notin Range(calls)

\* C6: every seek wait is bounded: it is released by 'seeked' or by the
\* 100 ms timer, whichever is first, so that under a fair timer the loop
\* never blocks on a seek, and a timed-out seek still has its frame drawn
\* and handed to the muxer (the job does not reject for the timeout).
C6_SeekWaitBounded ==
    /\ (pc = "seekWait") ~> (pc = "appendWait")
    /\ [][(wait.cause = "none" /\ wait'.cause # "none")
             => /\ pc = "seekWait"
                /\ pc' = "composite"
                /\ settled' = "pending"
                /\ frameIndex' = frameIndex]_vars

\* a frame whose seek was never acknowledged was drawn after the timeout
C6_Witness ==
    /\ pc = "appendWait"
    /\ wait.cause = "timeout"
    /\ render.frame = frameIndex
    /\ render.stale
    /\ frameIndex = 1

\* C7: no stale frame is drawn: the wait of frame N is released only by a
\* 'seeked' event caused by the seek of frame N, or by frame N's own timer;
\* an event or timer of an earlier frame never releases a later wait.
C7_NoStaleRelease ==
    /\ wait.cause # "none" => wait.of = "current"
    /\ (pc = "appendWait" /\ wait.cause = "seeked") => ~render.stale

\* section resolution as the claim words it
Matching(secs, time) ==
    {i \in 0..(Len(secs) - 1) :
        secs[i + 1].startTime <= time /\ time < secs[i + 1].endTime}

ClaimedIdx(secs, time) ==
    IF Matching(secs, time) # {} THEN Min(Matching(secs, time))
    ELSE IF Len(secs) > 0 /\ time >= secs[Len(secs)].startTime
    THEN Len(secs) - 1
    ELSE -1

\* C8: the active index is the first i with startTime_i <= t < endTime_i;
\* failing that, the last index if the list is non-empty and t is at or
\* after the last start; otherwise -1. The encoder and both preview
\* components find the same index.
C8_SectionResolution ==
    out.op = "resolve" =>
        /\ out.encoder = ClaimedIdx(sections, t)
        /\ out.pills = out.encoder
        /\ out.dots = out.encoder

\* past the end of every section of a two-section list: the last index
C8_Witness ==
    /\ out.op = "resolve"
    /\ Len(sections) = 2
    /\ Matching(sections, t) = {}
    /\ out.encoder = 1
    /\ out.pills = 1
    /\ out.dots = 1

\* ordered, non-overlapping sections covering [0, dur]
Covering(secs, dur) ==
    /\ Len(secs) >= 1
    /\ secs[1].startTime = 0
    /\ secs[Len(secs)].endTime = dur
    /\ \A i \in 1..(Len(secs) - 1) : secs[i].endTime = secs[i + 1].startTime

\* C9: for sections covering [0, duration],
\* pct = (activeIdx + min((t - start) / (end - start), 1)) / N; at
\* t = sections[k].startTime it is exactly k / N, at the last endTime 1.
C9_SectionWeightedProgress ==
    (out.op = "progress" /\ Covering(sections, duration)) =>
        LET N == Len(sections)
            a == ClaimedIdx(sections, t)
            s == sections[a + 1]
            len == s.endTime - s.startTime
            part == IF t - s.startTime < len THEN t - s.startTime ELSE len
        IN /\ a >= 0
           /\ out.encoder[1] * (N * len) = (a * len + part) * out.encoder[2]
           /\ out.dots[1] * (N * len) = (a * len + part) * out.dots[2]
           /\ \A k \in 0..(N - 1) :
                 t = sections[k + 1].startTime
                    => out.encoder[1] * N = k * out.encoder[2]
           /\ t = sections[N].endTime => out.encoder[1] = out.encoder[2]

\* two sections of unequal length, at the start of the second: one half
C9_Witness ==
    /\ out.op = "progress"
    /\ Covering(sections, duration)
    /\ Len(sections) = 2
    /\ sections[2].endTime - sections[2].startTime
          > sections[1].endTime - sections[1].startTime
    /\ t = sections[2].startTime
    /\ RatEq(out.encoder, Rat(1, 2))

\* (currentTime - start) / 0.3 capped at 1, times in ticks
ClaimedRawT(currentTime, start) ==
    IF (currentTime - start) * 10 < 3 * TicksPerSecond
    THEN Rat((currentTime - start) * 10, 3 * TicksPerSecond)
    ELSE RatOne

\* C10: on every frame, if the active index differs from the one recorded on
\* the previous frame (initially -1), leavingIdx takes that previous index,
\* transitionStartTime the frame time, and the new index is recorded;
\* otherwise both are kept. rawT is min((currentTime - start) / 0.3, 1), or
\* 1 if no change ever occurred. A change during a running transition
\* restarts rawT at 0 with leavingIdx the directly preceding active index.
C10_TrackerUpdate ==
    [][(pc = "composite" /\ pc' = "appendWait") =>
          LET activeIdx == render'.activeIdx
              currentTime == render'.currentTime
              changed == activeIdx # prevActiveIdx
              running == render # NoRender /\ RatLt(render.transitionT, RatOne)
          IN /\ currentTime * fps = frameIndex * TicksPerSecond
             /\ frameIndex = 0 =>
                   prevActiveIdx = -1 /\ leavingIdx = -1
                      /\ transitionStartTime = -1
             /\ changed => /\ leavingIdx' = prevActiveIdx
                           /\ transitionStartTime' = currentTime
                           /\ prevActiveIdx' = activeIdx
             /\ ~changed => UNCHANGED <<prevActiveIdx, leavingIdx,
                                        transitionStartTime>>
             /\ RatEq(render'.transitionT,
                      IF transitionStartTime' >= 0
                      THEN ClaimedRawT(currentTime, transitionStartTime')
                      ELSE RatOne)
             /\ transitionStartTime' < 0 => prevActiveIdx' = -1
             /\ (changed /\ running)
                   => /\ RatEq(render'.transitionT, RatZero)
                      /\ leavingIdx' = render.activeIdx
      ]_vars

\* the third section became active two frames after the first did
C10_Witness ==
    /\ pc = "appendWait"
    /\ render.frame = 2
    /\ render.activeIdx = 2
    /\ leavingIdx = 1
    /\ transitionStartTime = CurrentTime(2)
    /\ RatEq(render.transitionT, RatZero)

\* 1 - (1 - x)^2 on a fraction, written out
ClaimedEase(x) == <<x[2] * x[2] - (x[2] - x[1]) * (x[2] - x[1]), x[2] * x[2]>>

\* the frame at currentTime lies 0.3 s or more after the recorded change
WindowOver(currentTime, start) ==
    start >= 0 /\ (currentTime - start) * 10 >= 3 * TicksPerSecond

C13_PillWeights ==
    (/\ render # NoRender
     /\ render.drawn
     /\ transitionStartTime >= 0
     /\ RatLt(render.transitionT, RatOne)) =>
        /\ render.activeIdx >= 0
              => RatEq(render.weights[render.activeIdx], render.easedT)
        /\ leavingIdx >= 0
              => RatEq(render.weights[leavingIdx],
                       RatSub(RatOne, render.easedT))
        /\ (render.activeIdx >= 0 /\ leavingIdx >= 0)
              => RatEq(RatAdd(render.weights[render.activeIdx],
                              render.weights[leavingIdx]), RatOne)

\* failures the environment can cause; the frame computation throws none
EnvironmentFailures ==
    {"Failed to load video", "output.start failed", "videoSource.add failed",
     "output.finalize failed", "No output buffer"}

\* t / duration clamped to [0, 1]
ClampedFraction(time, dur) ==
    IF time <= 0 THEN RatZero
    ELSE IF time >= dur THEN RatOne
    ELSE Rat(time, dur)

\* C14: with an empty section list and duration > 0 the encoder completes
\* every frame without throwing, activeIdx and leavingIdx stay -1 on every
\* frame and no overlay is drawn; the progress the live preview computes for
\* an empty list is t / duration clamped to [0, 1].
C14_EmptyList ==
    (sections = <<>> /\ duration > 0) =>
        /\ render # NoRender => /\ render.activeIdx = -1
                                /\ render.leavingIdx = -1
                                /\ ~render.drawn
        /\ prevActiveIdx = -1
        /\ leavingIdx = -1
        /\ transitionStartTime = -1
        /\ pc = "rejected" => settled \in EnvironmentFailures
        /\ pc = "resolved" => Len(appended) = CeilFrames(duration)
        /\ \A time \in 0..(duration + 1) :
              RatEq(DotsTickPct(sections, time, duration),
                    ClampedFraction(time, duration))

\* a job without sections resolved with all the frames of its duration
C14_Witness ==
    /\ sections = <<>>
    /\ duration = MaxDuration
    /\ pc = "resolved"
    /\ Len(appended) = CeilFrames(duration)
    /\ render.activeIdx = -1
    /\ ~render.drawn

\* C15: with duration = 0 the job rejects with a descriptive failure and
\* returns no Blob: it does not finalize and hand back a zero-frame output.
C15_ZeroDurationRejects ==
    duration = 0 =>
        /\ pc # "resolved"
        /\ settled # "blob"
        /\ "finalize" \notin Range(calls)

\* C17: the job resolves with a Blob only if the video loaded, every one of
\* the totalFrames frames was appended, the video source was closed,
\* finalize completed and gave a buffer; a failure of load, of an append or
\* of finalize, or a missing buffer, rejects instead.
C17_NoPartialOutput ==
    /\ settled = "blob" <=> pc = "resolved"
    /\ pc = "resolved" =>
          /\ "addVideoTrack" \in Range(calls)
          /\ Len(appended) = CeilFrames(duration)
          /\ appendPending = <<>>
          /\ Len(calls) >= 2
          /\ calls[Len(calls) - 1] = "videoSource.close"
          /\ calls[Len(calls)] = "finalize"
    /\ settled \in EnvironmentFailures => pc = "rejected"
    /\ pc = "rejected" => settled \in EnvironmentFailures
    /\ settled = "Failed to load video" => calls = <<>> /\ appended = <<>>
    /\ settled = "videoSource.add failed"
          => /\ Len(appended) < CeilFrames(duration)
             /\ "finalize" \notin Range(calls)
    /\ settled \in {"output.finalize failed", "No output buffer"}
          => "finalize" \in Range(calls)

\* a job resolved with a Blob after all its frames
C17_Witness ==
    /\ pc = "resolved"
    /\ settled = "blob"
    /\ duration = 4
    /\ Len(appended) = 2
    /\ calls[Len(calls)] = "finalize"

\* C16: every job eventually settles, and settles once, whatever the video
\* element (metadata loads or errors, canplay fires or not, seeks
\* acknowledged or not) and the muxer do; it never stays pending forever.
C16_EventuallySettles ==
    /\ <>(pc \in {"resolved", "rejected"})
    /\ [][settled # "pending" => settled' = settled]_vars

\* the CanvasSource exists from the set-up on
VideoSourceOpen ==
    /\ "addVideoTrack" \in Range(calls)
    /\ "videoSource.close" \notin Range(calls)

\* C18: on every exit path, resolve or reject, the video source, any audio
\* source that was opened and the AudioContext have been closed.
C18_ResourcesReleased ==
    pc \in {"resolved", "rejected"} =>
        /\ ~VideoSourceOpen
        /\ audioSource # "open"
        /\ audioContext # "open"

Abs(x) == IF x < 0 THEN -x ELSE x

\* the layout quantities as the claim gives them
ClaimedAvailable == out.maxPillsWidth - out.pillGap * (Len(sections) - 1)
ClaimedExtra ==
    LET rest == ClaimedAvailable - SumTo(out.minWidths, Len(sections))
    IN IF rest > 0 THEN rest ELSE 0

\* |(width_i - minWidth_i) - (secDur_i / totalDuration) * extra| <= 1
ShareWithinOnePixel(i) ==
    LET secDur == sections[i].endTime - sections[i].startTime
        total == TotalDuration(sections)
    IN Abs((out.pillWidths[i] - out.minWidths[i]) * total
              - secDur * ClaimedExtra) <= total

\* the example of the claim, durations [10, 30, 10, 40], every name 40 px
\* wide, on a canvas 1280 px wide
ExampleSections == <<Section(0, 10), Section(10, 40), Section(40, 50),
                     Section(50, 90)>>
ExampleWidths == <<40, 40, 40, 40>>

ClaimedTypeOk(f) ==
    f.type \in {"video/mp4", "video/webm", "video/quicktime",
                "video/x-msvideo"}
ClaimedSizeOk(f) == f.size <= 100 * 1024 * 1024
ClaimedDurationOk(f) == f.duration <= 90 * HalvesPerSecond

\* the duration a posted form declares is above 90 s
DeclaresTooLong(form) ==
    /\ form.duration.present
    /\ 10 * form.duration.whole + form.duration.tenths > 10 * 90

\* C20: handleFileUpload sends the file to /api/analyze only after, in this
\* order, the MIME type was found supported, the size at most 100 MB and the
\* metadata duration at most 90 s; when a check fails no request is sent,
\* error is set, the preview URL is cleared and isLoading ends false. The
\* server answers 400 for an uploaded duration above 90 s.
C20_UploadGate ==
    /\ \A i \in DOMAIN requests :
          /\ requests[i].from = "uploader" =>
                /\ ClaimedTypeOk(requests[i].of)
                /\ ClaimedSizeOk(requests[i].of)
                /\ ClaimedDurationOk(requests[i].of)
                /\ requests[i].of = file
                /\ upload.pc = "fetch"
                /\ upload.posted
                /\ 10 * requests[i].duration.whole
                      + requests[i].duration.tenths
                      = 5 * requests[i].of.duration
                /\ \A j \in DOMAIN requests :
                      requests[j].from = "uploader" => j = i
          /\ (requests[i].hasFile /\ requests[i].status # 0
                /\ DeclaresTooLong(requests[i]))
                => requests[i].status = 400
    /\ upload.posted
          => ClaimedTypeOk(file) /\ ClaimedSizeOk(file)
                /\ ClaimedDurationOk(file)
    /\ (upload.pc = "metadata")
          => /\ ClaimedTypeOk(file) /\ ClaimedSizeOk(file)
             /\ upload.isLoading
             /\ upload.videoPreviewUrl # "null"
             /\ ~upload.posted
    /\ (/\ upload.pc = "idle"
        /\ file # NoFile
        /\ ~(ClaimedTypeOk(file) /\ ClaimedSizeOk(file)
               /\ ClaimedDurationOk(file)))
          => /\ ~upload.posted
             /\ upload.error # "null"
             /\ ~ClaimedTypeOk(file) => upload.error = "Unsupported format"
             /\ (ClaimedTypeOk(file) /\ ~ClaimedSizeOk(file))
                   => upload.error = "File size must be less than 100MB"
             /\ (ClaimedTypeOk(file) /\ ClaimedSizeOk(file))
                   => upload.error \in {"Video must be 90 seconds or less",
                                        "Failed to load video metadata"}
             /\ upload.videoPreviewUrl = "null"
             /\ ~upload.isLoading
             /\ ~upload.navigated

\* after a first file was posted, the second, of 100 MB and 90.5 s, was
\* turned away once its metadata had loaded; a form of another client that
\* declares 90.5 s got a 400
C20_Witness ==
    /\ upload.attempts = 2
    /\ upload.pc = "idle"
    /\ file.type = "video/x-msvideo"
    /\ file.size = 100 * 1024 * 1024
    /\ file.duration = 90 * HalvesPerSecond + 1
    /\ upload.error = "Video must be 90 seconds or less"
    /\ upload.videoPreviewUrl = "null"
    /\ ~upload.isLoading
    /\ ~upload.posted
    /\ Len(requests) = 1
    /\ requests[1].from = "other"
    /\ requests[1].hasFile
    /\ DeclaresTooLong(requests[1])
    /\ requests[1].status = 400

\* a === b, and a <= b, on the route's numbers
NumEq(a, b) == ~a.nan /\ ~b.nan /\ a.v = b.v
NumLe(a, b) == ~a.nan /\ ~b.nan /\ a.v <= b.v

Ascending(secs) ==
    \A i \in 1..(Len(secs) - 1) : NumLe(secs[i].startTime, secs[i + 1].startTime)

\* five sections, the first from 0, each from where the one before ends,
\* the last to the duration the form declared
ClaimedDefaults(secs, dur) ==
    /\ Len(secs) = 5
    /\ NumEq(secs[1].startTime, Num(0))
    /\ \A i \in 1..4 : NumEq(secs[i].endTime, secs[i + 1].startTime)
    /\ \A i \in 1..5 : NumLe(secs[i].startTime, secs[i].endTime)
    /\ NumEq(secs[5].endTime, Scale(dur, 10))

\* the requests that get as far as the detector
ReachesDetector(form) == POST(form, "sections").status = 200

\* C21: every successful answer of the analyze route carries a non-empty
\* section list in ascending startTime order whose last endTime is the
\* videoDuration; a detector reply that parses to an empty list is answered
\* with 500; an unparsable or ill-shaped reply is answered with the default
\* contiguous sections over [0, duration].
C21_AnalyzeAnswers ==
    out.op = "analyze"
       => /\ out.response.status = 200
                => /\ Len(out.response.sections) > 0
                   /\ Ascending(out.response.sections)
                   /\ NumEq(out.response.videoDuration,
                            out.response.sections[
                                Len(out.response.sections)].endTime)
          /\ (ReachesDetector(requests[1]) /\ reply.kind = "sections"
                /\ reply.list = <<>>)
                => out.response.status = 500
          /\ (ReachesDetector(requests[1])
                /\ reply.kind \in {"unparsable", "ill-shaped"})
                => /\ out.response.status = 200
                   /\ ClaimedDefaults(out.response.sections,
                                      parseFloat(requests[1].duration))

\* C22: for every non-empty section list and every time t the progress
\* drawTimelineOverlay computes equals the progress of the TimelineDots
\* tick: the same active index, the same pct, the same number in the badge.
C22_ProgressParity ==
    (out.op = "progress" /\ Len(sections) > 0)
       => /\ out.drawn
          /\ out.encoderIdx = out.dotsIdx
          /\ RatEq(out.encoder, out.dots)
          /\ out.encoderBadge = out.dotsBadge

\* halfway through the second of two sections both show 75%
C22_Witness ==
    /\ out.op = "progress"
    /\ Len(sections) = 2
    /\ out.encoderIdx = 1
    /\ t > sections[2].startTime
    /\ t < sections[2].endTime
    /\ RatEq(out.encoder, Rat(3, 4))
    /\ out.encoderBadge = 75
    /\ out.dotsBadge = 75

PillsFrame ==
    /\ render # NoRender
    /\ render.fn = "drawColoredPillsOverlay"
    /\ render.drawn

C24_LeavingDiffers ==
    /\ leavingIdx >= 0 => leavingIdx # prevActiveIdx
    /\ (render # NoRender)
          => /\ render.leavingIdx >= 0
                   => render.leavingIdx # render.activeIdx
             /\ \A index \in DOMAIN render.weights :
                   index \notin {render.activeIdx, render.leavingIdx}
                      => RatEq(render.weights[index], RatZero)
             /\ Cardinality({index \in DOMAIN render.weights :
                                ~RatEq(render.weights[index], RatZero)}) <= 2

\* three pills of the dots variant in the middle of the change from the
\* second to the third: those two have weight, the first has none
C24_Witness ==
    /\ render # NoRender
    /\ render.fn = "drawTimelineOverlay"
    /\ Len(sections) = 3
    /\ render.activeIdx = 2
    /\ render.leavingIdx = 1
    /\ ~RatEq(render.weights[1], RatZero)
    /\ ~RatEq(render.weights[2], RatZero)
    /\ RatEq(render.weights[0], RatZero)

\* the first section starts at 0 and each starts where the one before ends
Contiguous(secs) ==
    /\ Len(secs) > 0
    /\ secs[1].startTime = 0
    /\ \A i \in 1..(Len(secs) - 1) : secs[i + 1].startTime = secs[i].endTime

DotsFrame(r) ==
    /\ r # NoRender
    /\ r.fn = "drawTimelineOverlay"
    /\ r.drawn

\* C25: for ordered, contiguous sections pct lies in [0, 1] on every encoded
\* frame and never decreases from one frame to the next.
C25_PctMonotone ==
    /\ []((Contiguous(sections) /\ DotsFrame(render))
            => /\ RatLe(RatZero, render.pct)
               /\ RatLe(render.pct, RatOne))
    /\ [][(Contiguous(sections) /\ DotsFrame(render) /\ DotsFrame(render'))
            => RatLe(render.pct, render'.pct)]_vars

\* two contiguous sections, a frame inside the second one: pct has passed
\* one half and not reached 1
C25_Witness ==
    /\ Contiguous(sections)
    /\ Len(sections) = 2
    /\ DotsFrame(render)
    /\ render.activeIdx = 1
    /\ RatLt(Rat(1, 2), render.pct)
    /\ RatLt(render.pct, RatOne)

\* C26: every encoded frame's timestamp is strictly less than the declared
\* duration, so when the last section ends at the duration the last frame
\* has a pct below 1 and its badge shows less than 100%.
C26_LastFrameBelowDuration ==
    out.op = "lastFrame"
       => /\ DoubleLt(out.currentTime, out.duration)
          /\ out.found
          /\ ~out.pctIsOne

\* the job is in the frame loop or past it
ReachedLoop ==
    pc \in {"loopHead", "seekWait", "composite", "appendWait", "finalize",
            "resolved"}

\* C27: on every path that reaches the frame loop output.start() has been
\* called exactly once, whichever step of the audio block failed, and the
\* output has an audio track only if the audio buffer was added to it.
C27_StartOnce ==
    ReachedLoop
       => /\ StartCalls = 1
          /\ "addAudioTrack" \in Range(calls) => "audioAdded" \in Range(calls)

\* the tracker after frame k of a run in which every frame 0..k was
\* composited at its own time k / fps, whatever released its wait
RECURSIVE TrackerAfter(_, _)
TrackerAfter(secs, k) ==
    IF k < 0
    THEN [prevActiveIdx |-> -1, leavingIdx |-> -1, transitionStartTime |-> -1]
    ELSE TrackTransition(TrackerAfter(secs, k - 1),
                         ActiveIdx(secs, k * FrameDuration),
                         k * FrameDuration)

\* what frame k hands to the overlay, from the sections and k alone
FrameTuple(secs, k) ==
    LET tr == TrackerAfter(secs, k)
        transitionT == TransitionT(tr, k * FrameDuration)
    IN  [currentTime |-> k * FrameDuration,
         activeIdx |-> ActiveIdx(secs, k * FrameDuration),
         leavingIdx |-> RenderLeavingIdx(tr, transitionT),
         transitionT |-> transitionT]

\* C28: for fixed sections and duration the sequence of (timestamp,
\* activeIdx, leavingIdx, transitionT, reported progress) over the frames
\* is the same in every run, whether each wait was released by 'seeked' or
\* by the 100 ms timeout: every frame's values are those computed from the
\* sections, the duration and the frame index alone.
C28_OverlayIgnoresSeekTiming ==
    /\ (render # NoRender)
          => LET expected == FrameTuple(sections, render.frame) IN
             /\ render.currentTime = expected.currentTime
             /\ render.activeIdx = expected.activeIdx
             /\ render.leavingIdx = expected.leavingIdx
             /\ render.transitionT = expected.transitionT
    /\ \A i \in 1..Len(appended) :
          appended[i].timestamp = (i - 1) * FrameDuration
    /\ \A i \in 1..Len(progressLog) :
          progressLog[i] = Rat(i, CeilFrames(duration))

\* a frame whose wait ended by the timeout, composited two frames into the
\* change from the first section to the second, its progress reported
C28_Witness ==
    /\ wait.cause = "timeout"
    /\ pc = "loopHead"
    /\ onProgress
    /\ render.frame = frameIndex - 1
    /\ Len(progressLog) = frameIndex
    /\ render.activeIdx = 1
    /\ render.leavingIdx = 0
    /\ RatLt(RatZero, render.transitionT)

\* C30: at most one 'seeked' listener of the encoder is registered at any
\* time; once a frame's wait has been released that frame's listener is no
\* longer registered; a 100 ms timer left over from an earlier frame that
\* fires later removes no listener of a later frame.
C30_OneSeekedListener ==
    /\ [](/\ Cardinality(listeners) <= 1
          /\ listeners \subseteq {frameIndex}
          /\ pc # "seekWait" => listeners = {})
    /\ [][(\E k \in timers \ timers' : k # frameIndex)
             => listeners' = listeners]_vars

\* frame 1 waits with its listener registered while the timer of frame 0,
\* whose wait 'seeked' released, is still pending
C30_Witness ==
    /\ pc = "seekWait"
    /\ frameIndex = 1
    /\ listeners = {1}
    /\ timers = {0, 1}

====
